---- MODULE Spec2Model ----
(***************************************************************************)
(* Position tracker (PositionTracker) and copy-trade engine                *)
(* (StrategyExecutor) of the Polymarket copy-trading bot.                  *)
(*                                                                         *)
(* Execution model: one JavaScript event loop.  Every action below is one  *)
(* macrotask (a timer tick, a resolved network call, a call made by the    *)
(* embedding program) together with all promise continuations that it      *)
(* makes runnable.  An `await` of a network call (the snapshot fetch, an   *)
(* order call, the gateway initialisation) suspends the async function;    *)
(* its resumption is a later action.                                       *)
(*                                                                         *)
(* Numbers: quantities are the parsed value of Position.quantity in        *)
(* hundredths of a share, total values are in cents.                       *)
(***************************************************************************)
EXTENDS Integers, Sequences, FiniteSets, TLC

\* ------------------------------------------------------------------ bounds
\* updateStatus executions in flight at once
MaxFetches == 2
\* handleStatusUpdate executions suspended at an order call at once
MaxCycles == 2
\* interval timers alive at once
MaxTimers == 2
\* order calls issued in a run (caps the stats counters)
MaxTrades == 3
\* orderExecutor.initialize() calls in flight at once
MaxInits == 1

\* ------------------------------------------------------------- input sets
Ids == {"p1", "p2"}

Pos(id, q) == [id |-> id, quantity |-> q]

Status(ps, v) == [openPositions |-> ps, totalValue |-> v]

\* Snapshots the snapshot source may return for the target address.
\* SnapA and SnapB are the fixtures of the specification's two-cycle scenario.
SnapA == Status(<<Pos("p1", 1000)>>, 500)
SnapB == Status(<<>>, 0)
\* same ids as SnapA, quantity one share more: inside the change threshold
SnapA2 == Status(<<Pos("p1", 1100)>>, 500)
SnapC == Status(<<Pos("p1", 1000), Pos("p2", 1000)>>, 1000)
SnapD == Status(<<Pos("p2", 1000)>>, 500)

FetchResults == {SnapA, SnapB, SnapA2, SnapC, SnapD}

\* Quantities are decimal strings with two places, written as hundredths of a
\* share; total values likewise, as cents.  The quantities sit below, at and
\* above the change threshold of each other, in both of its branches.
Quantities == {114, 214, 1000, 1100, 1101, 10100, 10201, 20000, 20200, 20201}

Values == {0, 500, 1000}

\* Snapshots for the change detection: none, one or two positions, unique ids
DetectResults ==
    {SnapB}
        \cup {Status(<<Pos(id, q)>>, 500) : id \in Ids, q \in Quantities}
        \cup {Status(<<Pos("p1", q), Pos("p2", 1000)>>, v) :
                    q \in Quantities, v \in {500, 1000}}

\* executedQuantity * executedPrice of a successful order result, in cents
Fills == {500}

OrderOutcomes == {"success", "failure", "throw"}

\* --------------------------------------------------------------- the state
VARIABLES
    enabled,            \* CopyTradingConfig.enabled
    dryRun,             \* CopyTradingConfig.dryRun
    buyFails,           \* environment: the gateway's executeBuy always returns success:false
    isMonitoring,       \* PositionTracker.isMonitoring
    isPolling,          \* PositionTracker.isPolling
    pollIntervalId,     \* PositionTracker.pollIntervalId, 0 = undefined
    timers,             \* the interval timers alive in the event loop
    lastStatus,         \* PositionTracker.lastStatus: <<>> = undefined, else <<status>>
    fetches,            \* updateStatus executions awaiting getUserPositions, in start order
    initsInFlight,      \* StrategyExecutor.start() calls awaiting orderExecutor.initialize()
    executedPositions,  \* StrategyExecutor.executedPositions
    targetPositions,    \* StrategyExecutor.targetPositions, in Map insertion order
    stats,              \* StrategyExecutor.stats
    cycles,             \* handleStatusUpdate executions awaiting an order call, in start order
    succBuys,           \* history: successful executeBuy results per id
    succSells,          \* history: successful executeSell results per id
    buyFailed,          \* history: ids whose executeBuy failed while in the accepted
                        \* snapshot, and that every snapshot accepted since contains
    sellFailed,         \* history: ids whose executeSell failed while absent from the
                        \* accepted snapshot, and that every snapshot accepted since lacks
    event               \* observation: what the last step did

vars == <<enabled, dryRun, buyFails, isMonitoring, isPolling, pollIntervalId, timers,
          lastStatus, fetches, initsInFlight, executedPositions, targetPositions,
          stats, cycles, succBuys, succSells, buyFailed, sellFailed, event>>

configVars == <<enabled, dryRun, buyFails>>

trackerVars == <<isMonitoring, isPolling, pollIntervalId, timers, lastStatus, fetches>>

engineVars == <<executedPositions, targetPositions, stats, cycles, succBuys, succSells,
                buyFailed, sellFailed>>

\* ------------------------------------------------------------ observations
NoCall == <<>>

OrderCall(kind, id) == <<[kind |-> kind, id |-> id]>>

\* op: the operation that ran; input: what the step received and read: the
\* fetched snapshot followed by the stored one it was compared with (if any),
\* the order outcome, the initialize outcome, for a timer tick whether it
\* found isPolling clear; call: the order call it issued (at most one);
\* onUpdate / onError: how often it invoked the caller's callbacks;
\* done: <<cur>> when a handleStatusUpdate execution reached its last line;
\* threw: the operation's promise rejected.
Event(op, input, call, nUpdate, nError, done, threw) ==
    [op |-> op, input |-> input, call |-> call, onUpdate |-> nUpdate,
     onError |-> nError, done |-> done, threw |-> threw]

\* ------------------------------------------------------- pure helper code
IdsOf(ps) == {ps[i].id : i \in 1..Len(ps)}

\* prevMap.get(id): the last entry with that id wins in new Map(entries)
PrevOf(prev, id) ==
    LET hits == {i \in 1..Len(prev) : prev[i].id = id}
    IN  prev[CHOOSE i \in hits : \A j \in hits : j <= i]

\* ------------------------------------------------ IEEE-754 double arithmetic
\* parseFloat and the Number operators work on binary64 values.  A natural
\* number is a sequence of limbs below Base, least significant first, without
\* leading zero limbs; a non-negative double is m * 2^e with m = 0 or
\* 2^52 <= m < 2^53.  Every operation rounds to nearest, ties to even.
Base == 32768

LimbBits == 15

MantBits == 53

RECURSIVE Trim(_)
Trim(n) == IF n = <<>> THEN <<>>
           ELSE IF n[Len(n)] = 0 THEN Trim(SubSeq(n, 1, Len(n) - 1)) ELSE n

RECURSIVE ToLimbs(_)
ToLimbs(k) == IF k = 0 THEN <<>> ELSE <<k % Base>> \o ToLimbs(k \div Base)

RECURSIVE MulSmall(_, _, _)
MulSmall(n, k, carry) ==
    IF n = <<>> THEN ToLimbs(carry)
    ELSE LET t == Head(n) * k + carry
         IN  <<t % Base>> \o MulSmall(Tail(n), k, t \div Base)

RECURSIVE DivSmall(_, _)
DivSmall(n, d) ==
    IF n = <<>> THEN [q |-> <<>>, r |-> 0]
    ELSE LET hi == DivSmall(Tail(n), d)
             cur == hi.r * Base + Head(n)
         IN  [q |-> Trim(<<cur \div d>> \o hi.q), r |-> cur % d]

RECURSIVE AddB(_, _, _)
AddB(a, b, carry) ==
    IF a = <<>> /\ b = <<>> THEN ToLimbs(carry)
    ELSE LET x == IF a = <<>> THEN 0 ELSE Head(a)
             y == IF b = <<>> THEN 0 ELSE Head(b)
             t == x + y + carry
         IN  <<t % Base>> \o AddB(IF a = <<>> THEN <<>> ELSE Tail(a),
                                  IF b = <<>> THEN <<>> ELSE Tail(b), t \div Base)

\* a - b - borrow for a >= b + borrow
RECURSIVE SubRaw(_, _, _)
SubRaw(a, b, borrow) ==
    IF a = <<>> THEN <<>>
    ELSE LET y == IF b = <<>> THEN 0 ELSE Head(b)
             t == Head(a) - y - borrow
         IN  <<IF t < 0 THEN t + Base ELSE t>>
                 \o SubRaw(Tail(a), IF b = <<>> THEN <<>> ELSE Tail(b),
                           IF t < 0 THEN 1 ELSE 0)

SubB(a, b) == Trim(SubRaw(a, b, 0))

\* -1, 0 or 1 as a < b, a = b or a > b
RECURSIVE CmpB(_, _)
CmpB(a, b) ==
    IF Len(a) # Len(b) THEN (IF Len(a) < Len(b) THEN -1 ELSE 1)
    ELSE IF a = <<>> THEN 0
    ELSE IF a[Len(a)] # b[Len(b)] THEN (IF a[Len(a)] < b[Len(b)] THEN -1 ELSE 1)
    ELSE CmpB(Trim(SubSeq(a, 1, Len(a) - 1)), Trim(SubSeq(b, 1, Len(b) - 1)))

RECURSIVE MulB(_, _)
MulB(a, b) ==
    IF a = <<>> \/ b = <<>> THEN <<>>
    ELSE AddB(MulSmall(b, Head(a), 0),
              LET rest == MulB(Tail(a), b)
              IN  IF rest = <<>> THEN <<>> ELSE <<0>> \o rest, 0)

RECURSIVE BitsOf(_)
BitsOf(k) == IF k = 0 THEN 0 ELSE 1 + BitsOf(k \div 2)

BitLen(n) == IF n = <<>> THEN 0 ELSE LimbBits * (Len(n) - 1) + BitsOf(n[Len(n)])

RECURSIVE Zeros(_)
Zeros(k) == IF k = 0 THEN <<>> ELSE <<0>> \o Zeros(k - 1)

ShiftLeft(n, s) ==
    IF n = <<>> THEN <<>>
    ELSE Zeros(s \div LimbBits) \o MulSmall(n, 2 ^ (s % LimbBits), 0)

\* n / 2^k rounded to the nearest integer, ties to even; sticky says that
\* bits below n were already dropped
RoundShift(n, k, sticky) ==
    IF k = 0 THEN n
    ELSE LET a == k \div LimbBits
             b == k % LimbBits
             low == SubSeq(n, 1, a)
             d == DivSmall(SubSeq(n, a + 1, Len(n)), 2 ^ b)
             half == IF b = 0 THEN low[a] \div (Base \div 2)
                     ELSE d.r \div (2 ^ (b - 1))
             below == IF b = 0
                      THEN low[a] % (Base \div 2) # 0 \/ Trim(SubSeq(low, 1, a - 1)) # <<>>
                      ELSE d.r % (2 ^ (b - 1)) # 0 \/ Trim(low) # <<>>
             odd == d.q # <<>> /\ Head(d.q) % 2 = 1
         IN  IF half = 1 /\ (below \/ sticky \/ odd) THEN AddB(d.q, <<1>>, 0) ELSE d.q

Zero == [m |-> <<>>, e |-> 0]

\* the double nearest to n * 2^e (exponent range not modelled)
Normalize(n, e, sticky) ==
    LET len == BitLen(n)
    IN  IF n = <<>> THEN Zero
        ELSE IF len <= MantBits
        THEN [m |-> ShiftLeft(n, MantBits - len), e |-> e - (MantBits - len)]
        ELSE LET k == len - MantBits
                 m == RoundShift(n, k, sticky)
             IN  IF BitLen(m) > MantBits
                 THEN [m |-> DivSmall(m, 2).q, e |-> e + k + 1]
                 ELSE [m |-> m, e |-> e + k]

\* parseFloat of the decimal string with value h / 100
parseFloat(h) ==
    LET d == DivSmall(Zeros(4) \o ToLimbs(h), 100)
    IN  IF h = 0 THEN Zero ELSE Normalize(d.q, -(4 * LimbBits), d.r # 0)

\* Math.abs(x - y)
AbsDiff(x, y) ==
    LET e0 == IF x.m = <<>> THEN y.e ELSE IF y.m = <<>> THEN x.e
              ELSE IF x.e < y.e THEN x.e ELSE y.e
        a == ShiftLeft(x.m, x.e - e0)
        b == ShiftLeft(y.m, y.e - e0)
    IN  Normalize(IF CmpB(a, b) < 0 THEN SubB(b, a) ELSE SubB(a, b), e0, FALSE)

\* x * y
Times(x, y) == Normalize(MulB(x.m, y.m), x.e + y.e, FALSE)

\* the largest t in lo..hi with t * d <= r
RECURSIVE QuotLimb(_, _, _, _)
QuotLimb(r, d, lo, hi) ==
    IF lo = hi THEN lo
    ELSE LET mid == (lo + hi + 1) \div 2
         IN  IF CmpB(MulSmall(d, mid, 0), r) <= 0
             THEN QuotLimb(r, d, mid, hi) ELSE QuotLimb(r, d, lo, mid - 1)

\* floor(n / d) and the remainder, limb by limb
RECURSIVE DivB(_, _)
DivB(n, d) ==
    IF n = <<>> THEN [q |-> <<>>, r |-> <<>>]
    ELSE LET hi == DivB(Tail(n), d)
             cur == Trim(<<Head(n)>> \o hi.r)
             t == QuotLimb(cur, d, 0, Base - 1)
         IN  [q |-> Trim(<<t>> \o hi.q), r |-> SubB(cur, MulSmall(d, t, 0))]

\* x / y for y > 0
Over(x, y) ==
    LET d == DivB(ShiftLeft(x.m, 4 * LimbBits), y.m)
    IN  Normalize(d.q, x.e - y.e - 4 * LimbBits, d.r # <<>>)

\* x > y
Greater(x, y) ==
    IF x.m = <<>> THEN FALSE
    ELSE IF y.m = <<>> THEN TRUE
    ELSE x.e > y.e \/ (x.e = y.e /\ CmpB(x.m, y.m) > 0)

\* Math.max(x, y)
MathMax(x, y) == IF Greater(y, x) THEN y ELSE x

\* the literals 1 and 0.01
One == parseFloat(100)

Hundredth == parseFloat(1)

\* a quantity rule without the floor of one share
QuantityChanged_NoFloor(currQty, prevQty) ==
    Greater(AbsDiff(parseFloat(currQty), parseFloat(prevQty)),
            Times(parseFloat(prevQty), Hundredth))

\* Math.abs(currQty - prevQty) > Math.max(1, prevQty * 0.01)
QuantityChanged(currQty, prevQty) ==
    Greater(AbsDiff(parseFloat(currQty), parseFloat(prevQty)),
            MathMax(One, Times(parseFloat(prevQty), Hundredth)))

\* Math.abs(currValue - prevValue) / Math.max(prevValue, 0.01) > 0.01
ValueChanged(currValue, prevValue) ==
    Greater(Over(AbsDiff(parseFloat(currValue), parseFloat(prevValue)),
                 MathMax(parseFloat(prevValue), Hundredth)),
            Hundredth)

\* the two rules on every pair of inputs, computed once
QuantityRule ==
    UNION {IF QuantityChanged(pr[1], pr[2]) THEN {pr} ELSE {} : pr \in Quantities \X Quantities}

ValueRule ==
    UNION {IF ValueChanged(pr[1], pr[2]) THEN {pr} ELSE {} : pr \in Values \X Values}

\* a detectChanges without the comparison of the position counts
detectChanges_NoCountCheck(status, last) ==
    IF last = <<>> THEN TRUE
    ELSE LET prev == last[1] IN
         IF \E i \in 1..Len(status.openPositions) :
                    LET current == status.openPositions[i] IN
                    \/ current.id \notin IdsOf(prev.openPositions)
                    \/ <<current.quantity,
                          PrevOf(prev.openPositions, current.id).quantity>> \in QuantityRule
              THEN TRUE
         ELSE <<status.totalValue, prev.totalValue>> \in ValueRule

detectChanges(status, last) ==
    IF last = <<>> THEN TRUE
    ELSE LET prev == last[1] IN
         IF Len(status.openPositions) # Len(prev.openPositions) THEN TRUE
         ELSE IF \E i \in 1..Len(status.openPositions) :
                    LET current == status.openPositions[i] IN
                    \/ current.id \notin IdsOf(prev.openPositions)
                    \/ <<current.quantity,
                          PrevOf(prev.openPositions, current.id).quantity>> \in QuantityRule
              THEN TRUE
         ELSE <<status.totalValue, prev.totalValue>> \in ValueRule

\* ------------------------------------------- handleStatusUpdate, as code
\* line 136: a new position is bought unless its id is in executedPositions
ShouldBuy(position, ledger) == position.id \notin ledger

\* the sell loop without its ledger check
ShouldSell_Unchecked(position, ledger) == TRUE

\* line 167: a closed position is sold only if its id is in executedPositions
ShouldSell(position, ledger) == position.id \in ledger

\* lines 117-123: positions of the current snapshot whose id targetPositions lacks
NewPositions(cur, target) == SelectSeq(cur, LAMBDA p : p.id \notin IdsOf(target))

\* lines 125-131: positions of targetPositions whose id the current snapshot lacks
ClosedPositions(cur, target) == SelectSeq(target, LAMBDA p : p.id \notin IdsOf(cur))

RECURSIVE NextBuy(_, _)
\* the buy loop's `continue`: drop entries until one is to be bought
NextBuy(q, ledger) ==
    IF q = <<>> THEN <<>>
    ELSE IF ShouldBuy(Head(q), ledger) THEN q
    ELSE NextBuy(Tail(q), ledger)

RECURSIVE NextSell(_, _)
\* the sell loop's `continue`: drop entries until one is to be sold
NextSell(q, ledger) ==
    IF q = <<>> THEN <<>>
    ELSE IF ShouldSell(Head(q), ledger) THEN q
    ELSE NextSell(Tail(q), ledger)

\* Run a handleStatusUpdate execution from where it stands to its next await
\* (pc "buy": awaiting executeBuy(Head(newQ)); pc "sell": awaiting
\* executeSell(Head(closedQ))) or to its last line (pc "done").
Resume(c, ledger) ==
    LET nq == NextBuy(c.newQ, ledger)
        cq == NextSell(c.closedQ, ledger)
    IN  IF nq # <<>> THEN [c EXCEPT !.pc = "buy", !.newQ = nq]
        ELSE IF cq # <<>> THEN [c EXCEPT !.pc = "sell", !.newQ = <<>>, !.closedQ = cq]
        ELSE [c EXCEPT !.pc = "done", !.newQ = <<>>, !.closedQ = <<>>]

\* handleStatusUpdate(status) from its first line to its first await or its end
\* (ids are unique within a snapshot, so currentPositions keeps every position)
BeginCycle(status, target, ledger) ==
    Resume([cur     |-> status.openPositions,
            newQ    |-> NewPositions(status.openPositions, target),
            closedQ |-> ClosedPositions(status.openPositions, target),
            pc      |-> "buy"], ledger)

\* the order call a handleStatusUpdate execution has just issued
CallOf(c) ==
    IF c.pc = "buy" THEN OrderCall("buy", Head(c.newQ).id)
    ELSE IF c.pc = "sell" THEN OrderCall("sell", Head(c.closedQ).id)
    ELSE NoCall

\* a handleStatusUpdate that replaces targetPositions on its first lines
TargetAfter_Early(c, target) == c.cur

\* lines 196-197: targetPositions is assigned on the last line only
TargetAfter(c, target) == IF c.pc = "done" THEN c.cur ELSE target

DoneOf(c) == IF c.pc = "done" THEN <<c.cur>> ELSE <<>>

RemoveAt(s, i) == [j \in 1..(Len(s) - 1) |-> IF j < i THEN s[j] ELSE s[j + 1]]

\* order calls issued so far: resolved ones are counted in stats, the others are in flight
Issued(st, cs) == st.totalTradesExecuted + st.totalTradesFailed + Len(cs)

WithinBounds(st, cs) == Len(cs) <= MaxCycles /\ Issued(st, cs) <= MaxTrades

\* a handleStatusUpdate whose failed order call ends both loops
AfterOrder_AbortOnFailure(c, ok) ==
    IF ~ok THEN [c EXCEPT !.newQ = <<>>, !.closedQ = <<>>]
    ELSE IF c.pc = "buy" THEN [c EXCEPT !.newQ = Tail(@)]
    ELSE [c EXCEPT !.closedQ = Tail(@)]

\* lines 146-161 / 177-193: whatever the result, and after a caught error too,
\* the loop goes on with its next entry
AfterOrder(c, ok) ==
    IF c.pc = "buy" THEN [c EXCEPT !.newQ = Tail(@)]
    ELSE [c EXCEPT !.closedQ = Tail(@)]

\* a buy that enters the ledger whatever its result
LedgerAfter_IgnoringResult(ledger, buy, ok, id) ==
    IF buy THEN ledger \cup {id}
    ELSE IF ok THEN ledger \ {id}
    ELSE ledger

\* lines 148 and 180: executedPositions after an order call has resolved
LedgerAfter(ledger, buy, ok, id) ==
    IF ~ok THEN ledger
    ELSE IF buy THEN ledger \cup {id}
    ELSE ledger \ {id}

\* lines 147-152 / 178-184: the result has success: true
OnOrderSuccess(st, fill) ==
    [st EXCEPT !.totalTradesExecuted = @ + 1,
               !.totalVolume = @ + fill,
               !.lastTradeTime = <<st.totalTradesExecuted + st.totalTradesFailed + 1>>]

\* a failure branch that also stamps lastTradeTime
OnOrderFailure_Stamped(st) ==
    [st EXCEPT !.totalTradesFailed = @ + 1,
               !.lastTradeTime = <<st.totalTradesExecuted + st.totalTradesFailed + 1>>]

\* lines 153-161 / 185-193: the result has success: false, or the call threw
OnOrderFailure(st) == [st EXCEPT !.totalTradesFailed = @ + 1]

\* ------------------------------------------------------------------- Init
\* lines 31-37: the counters of a new StrategyExecutor (lastTradeTime unset)
InitialStats == [totalTradesExecuted |-> 0, totalTradesFailed |-> 0,
                 totalVolume |-> 0, lastTradeTime |-> <<>>]

\* the state after `new StrategyExecutor(client, monitorOptions, copyTradingConfig)`
Constructed ==
    /\ isMonitoring = FALSE
    /\ isPolling = FALSE
    /\ pollIntervalId = 0
    /\ timers = {}
    /\ lastStatus = <<>>
    /\ fetches = <<>>
    /\ initsInFlight = 0
    /\ executedPositions = {}
    /\ targetPositions = <<>>
    /\ stats = InitialStats
    /\ cycles = <<>>
    /\ succBuys = [id \in Ids |-> 0]
    /\ succSells = [id \in Ids |-> 0]
    /\ buyFailed = {}
    /\ sellFailed = {}
    /\ event = Event("new", <<>>, NoCall, 0, 0, <<>>, FALSE)

\* the engine under every configuration of `enabled` and both gateways
Init ==
    /\ enabled \in BOOLEAN
    /\ dryRun = FALSE
    /\ buyFails \in BOOLEAN
    /\ enabled = FALSE => buyFails = FALSE
    /\ Constructed

\* the tracker alone: copy trading disabled, so onUpdate only reports
InitTracker ==
    /\ enabled = FALSE
    /\ dryRun = FALSE
    /\ buyFails = FALSE
    /\ Constructed

\* --------------------------------------------------------- PositionTracker
StartFetches == Len(SelectSeq(fetches, LAMBDA f : f.origin = "start"))

\* start() without its already-running check
CanStart_Always == TRUE

\* lines 42-45: start() returns at once when the monitor is already running
CanStart == ~isMonitoring

\* PositionTracker.start() up to its `await this.updateStatus()`
StartEffect ==
    IF ~CanStart
    THEN UNCHANGED trackerVars
    ELSE /\ Len(fetches) < MaxFetches
         /\ Cardinality(timers) + StartFetches < MaxTimers
         /\ isMonitoring' = TRUE
         /\ isPolling' = TRUE
         /\ fetches' = Append(fetches, [origin |-> "start"])
         /\ UNCHANGED <<pollIntervalId, timers, lastStatus>>

\* a call of PositionTracker.start() by the embedding program
TrackerStart ==
    /\ StartEffect
    /\ event' = Event("start", <<>>, NoCall, 0, 0, <<>>, FALSE)
    /\ UNCHANGED <<configVars, engineVars, initsInFlight>>

\* PositionTracker.stop(), also StrategyExecutor.stop()
TrackerStop ==
    /\ IF ~isMonitoring
       THEN UNCHANGED trackerVars
       ELSE /\ isMonitoring' = FALSE
            /\ timers' = timers \ {pollIntervalId}
            /\ pollIntervalId' = 0
            /\ UNCHANGED <<isPolling, lastStatus, fetches>>
    /\ event' = Event("stop", <<>>, NoCall, 0, 0, <<>>, FALSE)
    /\ UNCHANGED <<configVars, engineVars, initsInFlight>>

\* the setInterval callback of start(): lines 53-57
TickGuard == ~isPolling
Tick ==
    /\ timers # {}
    /\ IF TickGuard
       THEN /\ Len(fetches) < MaxFetches
            /\ isPolling' = TRUE
            /\ fetches' = Append(fetches, [origin |-> "tick"])
            /\ UNCHANGED <<isMonitoring, pollIntervalId, timers, lastStatus>>
       ELSE UNCHANGED trackerVars
    /\ event' = Event("tick", <<TickGuard>>, NoCall, 0, 0, <<>>, FALSE)
    /\ UNCHANGED <<configVars, engineVars, initsInFlight>>

FreshTimer == CHOOSE t \in 1..(Cardinality(timers) + 1) : t \notin timers

\* what follows updateStatus in its caller: start() goes on to setInterval
AfterUpdateStatus(f) ==
    IF f.origin = "start"
    THEN /\ pollIntervalId' = FreshTimer
         /\ timers' = timers \cup {FreshTimer}
    ELSE UNCHANGED <<pollIntervalId, timers>>

\* a catch block that also forgets the stored snapshot
StatusAfterFailure_Cleared(last) == <<>>

\* lines 130-136: the catch block reports the error and leaves lastStatus alone
StatusAfterFailure(last) == last

\* isPolling reset on the last line of the try block instead of in a finally
PollingAfterUpdate_NoFinally(failed) == failed

\* lines 137-139: finally { this.isPolling = false }, on both paths
PollingAfterUpdate(failed) == FALSE

\* an updateStatus that stores and reports every fetched status
Accepts_Always(status) == TRUE

\* line 126: the fetched status is stored and reported
Accepts(status) == detectChanges(status, lastStatus) \/ lastStatus = <<>>

\* an onUpdate handler that runs the copy-trading logic whatever the configuration
RunsCopyTrading_Always(accepted) == accepted

\* strategy-executor.ts lines 49-51: onUpdate runs handleStatusUpdate only if enabled
RunsCopyTrading(accepted) == accepted /\ enabled

\* getUserPositions resolves: updateStatus lines 113-129 and 137-139, with the
\* onUpdate handler of StrategyExecutor (lines 42-52) run inside it
FetchSucceeds(i, status) ==
    LET c == BeginCycle(status, targetPositions, executedPositions)
        run == RunsCopyTrading(Accepts(status))
    IN  /\ lastStatus' = IF Accepts(status) THEN <<status>> ELSE lastStatus
        /\ isPolling' = PollingAfterUpdate(FALSE)
        /\ fetches' = RemoveAt(fetches, i)
        /\ AfterUpdateStatus(fetches[i])
        /\ UNCHANGED isMonitoring
        /\ cycles' = IF run /\ c.pc # "done" THEN Append(cycles, c) ELSE cycles
        /\ targetPositions' = IF run THEN TargetAfter(c, targetPositions)
                              ELSE targetPositions
        /\ WithinBounds(stats, cycles')
        /\ buyFailed' = IF Accepts(status)
                        THEN buyFailed \cap IdsOf(status.openPositions) ELSE buyFailed
        /\ sellFailed' = IF Accepts(status)
                         THEN sellFailed \ IdsOf(status.openPositions) ELSE sellFailed
        /\ event' = Event("fetchDone", <<status>> \o lastStatus,
                          IF run THEN CallOf(c) ELSE NoCall,
                          IF Accepts(status) THEN 1 ELSE 0, 0,
                          IF run THEN DoneOf(c) ELSE <<>>, FALSE)
        /\ UNCHANGED <<configVars, initsInFlight, executedPositions, stats,
                       succBuys, succSells>>

\* getUserPositions rejects: getStatus lines 99-103, updateStatus lines 130-139
FetchFails(i) ==
    /\ isPolling' = PollingAfterUpdate(TRUE)
    /\ lastStatus' = StatusAfterFailure(lastStatus)
    /\ fetches' = RemoveAt(fetches, i)
    /\ AfterUpdateStatus(fetches[i])
    /\ UNCHANGED isMonitoring
    /\ event' = Event("fetchFailed", <<>>, NoCall, 0, 2, <<>>, FALSE)
    /\ UNCHANGED <<configVars, engineVars, initsInFlight>>

\* --------------------------------------------------------- StrategyExecutor
\* an order call of a suspended handleStatusUpdate execution resolves:
\* lines 145-161 (buy) or 176-193 (sell), then the loops up to the next await
OrderResolves(i, outcome, fill) ==
    LET c == cycles[i]
        buy == c.pc = "buy"
        id == IF buy THEN Head(c.newQ).id ELSE Head(c.closedQ).id
        ok == outcome = "success"
        ledger == LedgerAfter(executedPositions, buy, ok, id)
        next == Resume(AfterOrder(c, ok), ledger)
        present == lastStatus # <<>> /\ id \in IdsOf(lastStatus[1].openPositions)
    IN  /\ buy /\ buyFails => outcome = "failure"
        /\ executedPositions' = ledger
        /\ stats' = IF ok THEN OnOrderSuccess(stats, fill) ELSE OnOrderFailure(stats)
        /\ succBuys' = IF ok /\ buy THEN [succBuys EXCEPT ![id] = @ + 1] ELSE succBuys
        /\ succSells' = IF ok /\ ~buy THEN [succSells EXCEPT ![id] = @ + 1] ELSE succSells
        /\ buyFailed' = IF buy /\ ~ok /\ present THEN buyFailed \cup {id} ELSE buyFailed
        /\ sellFailed' = IF ~buy /\ ~ok /\ ~present THEN sellFailed \cup {id}
                         ELSE sellFailed
        /\ cycles' = IF next.pc = "done" THEN RemoveAt(cycles, i)
                     ELSE [cycles EXCEPT ![i] = next]
        /\ targetPositions' = TargetAfter(next, targetPositions)
        /\ WithinBounds(stats', cycles')
        /\ event' = Event(IF buy THEN "buyDone" ELSE "sellDone", <<outcome>>,
                          CallOf(next), 0, 0, DoneOf(next), FALSE)
        /\ UNCHANGED <<configVars, trackerVars, initsInFlight>>

\* StrategyExecutor.start() up to its first await: lines 67-86
ExecutorStart ==
    /\ IF ~enabled
       THEN StartEffect /\ UNCHANGED initsInFlight
       ELSE /\ initsInFlight < MaxInits
            /\ initsInFlight' = initsInFlight + 1
            /\ UNCHANGED trackerVars
    /\ event' = Event("executorStart", <<>>, NoCall, 0, 0, <<>>, FALSE)
    /\ UNCHANGED <<configVars, engineVars>>

\* a start() that rethrows the initialisation failure in dry-run mode too
InitFatal_IgnoringDryRun(ok) == ~ok

\* line 90: an initialisation failure is rethrown unless dry-run is on
InitFatal(ok) == ~ok /\ ~dryRun

\* orderExecutor.initialize() settles: lines 86-96
InitSettles(ok) ==
    /\ initsInFlight > 0
    /\ initsInFlight' = initsInFlight - 1
    /\ IF InitFatal(ok) THEN UNCHANGED trackerVars ELSE StartEffect
    /\ event' = Event("initDone", <<ok>>, NoCall, 0, 0, <<>>, InitFatal(ok))
    /\ UNCHANGED <<configVars, engineVars>>

\* ------------------------------------------------------------------- Next
\* Normal operation: the tracker is started and left running; snapshots, fetch
\* failures, ticks and order results arrive in any order.
Next ==
    \/ TrackerStart
    \/ Tick
    \/ \E i \in 1..Len(fetches) : \E s \in FetchResults : FetchSucceeds(i, s)
    \/ \E i \in 1..Len(fetches) : FetchFails(i)
    \/ \E i \in 1..Len(cycles) : \E o \in OrderOutcomes : \E v \in Fills :
           OrderResolves(i, o, v)

Spec == Init /\ [][Next]_vars

\* The tracker under every interleaving of start(), stop(), ticks and fetch results.
NextTracker ==
    \/ TrackerStart
    \/ TrackerStop
    \/ Tick
    \/ \E i \in 1..Len(fetches) : \E s \in FetchResults : FetchSucceeds(i, s)
    \/ \E i \in 1..Len(fetches) : FetchFails(i)

SpecTracker == InitTracker /\ [][NextTracker]_vars

\* The engine started through StrategyExecutor.start(), under every configuration
\* of `enabled` and `dryRun` and both outcomes of the gateway initialisation.
InitExecutor ==
    /\ enabled \in BOOLEAN
    /\ dryRun \in BOOLEAN
    /\ buyFails = FALSE
    /\ enabled = FALSE => dryRun = FALSE
    /\ Constructed

\* Order calls stay pending here: what is observed is the start-up path.
NextExecutor ==
    \/ ExecutorStart
    \/ \E ok \in BOOLEAN : InitSettles(ok)
    \/ Tick
    \/ \E i \in 1..Len(fetches) : \E s \in FetchResults : FetchSucceeds(i, s)
    \/ \E i \in 1..Len(fetches) : FetchFails(i)

SpecExecutor == InitExecutor /\ [][NextExecutor]_vars

\* getUserPositions settles, one way or the other
FetchSettles ==
    \E i \in 1..Len(fetches) :
        FetchFails(i) \/ \E s \in FetchResults : FetchSucceeds(i, s)

\* The tracker alone with the scheduling of the event loop: an interval timer
\* that is alive keeps firing, and a pending network call settles.
SpecTrackerFair == SpecTracker /\ WF_vars(Tick) /\ WF_vars(FetchSettles)

\* The tracker alone, never stopped, polling a source that returns snapshots
\* with quantities around the change threshold.
NextDetect ==
    \/ TrackerStart
    \/ Tick
    \/ \E i \in 1..Len(fetches) : \E s \in DetectResults : FetchSucceeds(i, s)
    \/ \E i \in 1..Len(fetches) : FetchFails(i)

SpecDetect == InitTracker /\ [][NextDetect]_vars

\* ================================================================= claims
OrdersInFlight == Len(cycles)

\* a step in which the onUpdate handler invoked handleStatusUpdate
CycleBegins == event'.op = "fetchDone" /\ event'.onUpdate = 1 /\ enabled

\* C1: whenever a step issues executeSell(id), id is in executedPositions at the
\* moment of the call (the ledger as the step leaves it: nothing runs between the
\* check of line 167 and the call of line 176), and id was bought successfully before.
C1_SellOnlyFromLedger ==
    [][\A k \in 1..Len(event'.call) :
          event'.call[k].kind = "sell" =>
              /\ event'.call[k].id \in executedPositions'
              /\ succBuys'[event'.call[k].id] > 0]_vars

\* C1 witness: a sell call has just been issued for an id the snapshot no longer holds.
C1_Witness ==
    /\ event.call # NoCall
    /\ event.call[1].kind = "sell"
    /\ lastStatus # <<>>
    /\ event.call[1].id \notin IdsOf(lastStatus[1].openPositions)

\* C2: with copy trading disabled no order call is ever issued, no
\* handleStatusUpdate execution exists or has finished, and the ledger, the
\* target map and the stats stay as constructed; an accepted snapshot only
\* invokes the caller's update callback.
C2_DisabledNeverTrades ==
    ~enabled =>
        /\ event.call = NoCall
        /\ event.done = <<>>
        /\ cycles = <<>>
        /\ executedPositions = {}
        /\ targetPositions = <<>>
        /\ stats = InitialStats

\* C2 witness: disabled, and a snapshot holding two positions has just been
\* accepted and reported to the update callback.
C2_Witness ==
    /\ ~enabled
    /\ event.op = "fetchDone"
    /\ event.onUpdate = 1
    /\ lastStatus = <<SnapC>>

\* C3: the diff-and-execute cycle of an accepted snapshot begins only when the
\* cycle of every earlier accepted snapshot has finished.
C3_CyclesNeverOverlap == [][CycleBegins => cycles = <<>>]_vars

\* C4: at most one order-gateway call is in flight at any instant.
C4_OneOrderInFlight == OrdersInFlight <= 1

\* C5: an id is in executedPositions exactly when its successful buys exceed its
\* successful sells by one, and otherwise the two numbers are equal.
C5_LedgerIsBuysMinusSells ==
    \A id \in Ids :
        succBuys[id] - succSells[id] = IF id \in executedPositions THEN 1 ELSE 0

\* C6: round trip with a succeeding gateway: once every cycle has finished, each
\* id bought and then absent from the next accepted snapshot has been sold and
\* left the ledger, and each id that reappeared has been bought afresh, so the
\* ledger holds exactly the ids of the last accepted snapshot.
C6_RoundTrip ==
    (enabled /\ stats.totalTradesFailed = 0 /\ cycles = <<>> /\ lastStatus # <<>>) =>
        executedPositions = IdsOf(lastStatus[1].openPositions)

\* C7: when executeBuy always returns success:false, totalTradesExecuted never
\* increases, the ledger stays empty, every resolved buy attempt adds exactly one
\* to totalTradesFailed and nothing else changes it, and one cycle attempts the
\* buy of an id at most once.
C7_FailingBuys ==
    [][buyFails =>
          /\ stats'.totalTradesExecuted = stats.totalTradesExecuted
          /\ executedPositions' = {}
          /\ stats'.totalTradesFailed =
                 stats.totalTradesFailed + (IF event'.op = "buyDone" THEN 1 ELSE 0)
          /\ \A i \in 1..Len(cycles') :
                 Cardinality(IdsOf(cycles'[i].newQ)) = Len(cycles'[i].newQ)]_vars

\* C7 witness: the failing gateway has refused three buy attempts; the third,
\* for p1 in a cycle whose snapshot holds p1 alone, has just resolved.
C7_Witness ==
    /\ buyFails
    /\ event.op = "buyDone"
    /\ stats.totalTradesFailed = 3
    /\ IdsOf(targetPositions) = {"p1"}

\* C8: start() on a running tracker changes nothing: no fetch is started, no
\* timer is created, no error is raised.
C8_StartWhileRunningIsNoOp ==
    [][(event'.op = "start" /\ isMonitoring) =>
          /\ UNCHANGED trackerVars
          /\ ~event'.threw]_vars

\* C8 witness: start() has just returned on a tracker that is running with its
\* timer set and no fetch in flight, so it was the no-op call.
C8_Witness ==
    /\ event.op = "start"
    /\ isMonitoring
    /\ pollIntervalId # 0
    /\ fetches = <<>>

\* C9: a tick that fires while isPolling is set starts nothing, and two
\* updateStatus executions are never in flight at the same time.
C9_OneUpdateStatusInFlight ==
    [][/\ (event'.op = "tick" /\ isPolling) => UNCHANGED trackerVars
       /\ Len(fetches') <= 1]_vars

\* C10: while the tracker is not running (stop() has returned and start() has
\* not been called again) no timer tick starts a fetch, and stop() on a tracker
\* that is not running changes nothing.
C10_StopCancelsSchedule ==
    [][/\ (event'.op = "stop") => ~isMonitoring'
       /\ (event'.op = "stop" /\ ~isMonitoring) => UNCHANGED trackerVars
       /\ (event'.op = "tick" /\ ~isMonitoring) => fetches' = fetches]_vars

\* C11: when the snapshot fetch fails, updateStatus invokes the error callback,
\* does not invoke the update callback, and leaves lastStatus exactly as it was.
C11_FailedFetchKeepsSnapshot ==
    [][event'.op = "fetchFailed" =>
          /\ event'.onError >= 1
          /\ event'.onUpdate = 0
          /\ lastStatus' = lastStatus]_vars

\* a fetch failed while a snapshot was stored
C11_Witness == event.op = "fetchFailed" /\ lastStatus # <<>>

\* C12: a failed updateStatus, the initial one of start() included, leaves
\* isPolling false and takes no timer away (start() still creates its timer
\* after its failed initial fetch); so, while the tracker is running, a failed
\* fetch is followed by a tick that starts a new fetch.
C12_FailureKeepsPolling ==
    /\ [][event'.op = "fetchFailed" =>
            /\ ~isPolling'
            /\ timers \subseteq timers'
            /\ Cardinality(timers') =
                   Cardinality(timers) + StartFetches - StartFetches']_vars
    /\ (event.op = "fetchFailed" /\ isMonitoring)
           ~> (~isMonitoring \/ (event.op = "tick" /\ event.input = <<TRUE>>))

\* the initial fetch of start() failed and a later tick started a new fetch
C12_Witness ==
    event.op = "tick" /\ event.input = <<TRUE>> /\ lastStatus = <<>> /\ isMonitoring

\* C13: after a successful fetch, lastStatus is replaced by the fetched status
\* and the update callback is invoked exactly when the change detection
\* reports a change or no snapshot was stored; otherwise lastStatus is not
\* replaced and the callback is not invoked.
C13_StoreAndNotifyOnChange ==
    [][event'.op = "fetchDone" =>
          LET status == event'.input[1]
          IN  IF lastStatus = <<>> \/ detectChanges(status, lastStatus)
              THEN lastStatus' = <<status>> /\ event'.onUpdate = 1
              ELSE lastStatus' = lastStatus /\ event'.onUpdate = 0]_vars

\* a fetched status that differs from the stored one inside the thresholds
\* was dropped without a notification
C13_Witness ==
    /\ event.op = "fetchDone"
    /\ event.onUpdate = 0
    /\ Len(event.input) = 2
    /\ event.input[1] # event.input[2]
    /\ lastStatus = <<event.input[2]>>

\* C14: StrategyExecutor.start() with copy trading enabled: when the gateway
\* initialisation fails and dry-run is off, start() fails and the tracker is
\* not started (isRunning() and the pending fetches stay as they were); when
\* dry-run is on, the failure is ignored and the tracker is started.
C14_InitFailure ==
    [][event'.op = "initDone" /\ event'.input = <<FALSE>> =>
          IF dryRun
          THEN /\ ~event'.threw
               /\ isMonitoring'
               /\ ~isMonitoring =>
                      /\ Len(fetches') = Len(fetches) + 1
                      /\ fetches'[Len(fetches')].origin = "start"
          ELSE /\ event'.threw
               /\ UNCHANGED trackerVars]_vars

\* start() failed on the initialisation error and the tracker is not running
C14_Witness ==
    /\ event.op = "initDone"
    /\ event.input = <<FALSE>>
    /\ event.threw
    /\ ~isMonitoring
    /\ fetches = <<>>

\* an order call resolved with success: false, or threw
OrderFailed(e) == e.op \in {"buyDone", "sellDone"} /\ e.input # <<"success">>

\* C15: an order call that fails or throws does not stop its cycle: the next
\* new position that is not in the ledger still gets its buy attempt, after
\* the buys the next closed position that is in the ledger still gets its sell
\* attempt, and only with none left the cycle ends; the failure does not
\* propagate and leaves the polling as it was.
C15_FailureDoesNotStopCycle ==
    [][OrderFailed(event') =>
          /\ ~event'.threw
          /\ UNCHANGED trackerVars
          /\ \E i \in 1..Len(cycles) :
                LET c == cycles[i]
                    restNew == IF c.pc = "buy" THEN Tail(c.newQ) ELSE <<>>
                    restClosed == IF c.pc = "buy" THEN c.closedQ ELSE Tail(c.closedQ)
                    buys == {k \in 1..Len(restNew) :
                                restNew[k].id \notin executedPositions'}
                    sells == {k \in 1..Len(restClosed) :
                                restClosed[k].id \in executedPositions'}
                    First(ks) == CHOOSE k \in ks : \A j \in ks : k <= j
                IN  /\ event'.op = IF c.pc = "buy" THEN "buyDone" ELSE "sellDone"
                    /\ IF buys # {}
                       THEN /\ event'.call = OrderCall("buy", restNew[First(buys)].id)
                            /\ Len(cycles') = Len(cycles)
                       ELSE IF sells # {}
                       THEN /\ event'.call = OrderCall("sell", restClosed[First(sells)].id)
                            /\ Len(cycles') = Len(cycles)
                       ELSE /\ event'.call = NoCall
                            /\ event'.done = <<c.cur>>
                            /\ Len(cycles') = Len(cycles) - 1]_vars

\* after a failed buy the same cycle went on to its next order call
C15_Witness == event.op = "buyDone" /\ OrderFailed(event) /\ event.call # NoCall

\* C16: the counters count the resolved order calls; in particular, after a
\* one-position snapshot followed by an empty snapshot, with a gateway that
\* never fails and every cycle finished, the position was bought and sold:
\* totalTradesExecuted = 2 and totalTradesFailed = 0.
C16_TwoSnapshotStats ==
    (/\ enabled
     /\ lastStatus = <<SnapB>>
     /\ cycles = <<>>
     /\ stats.totalTradesFailed = 0
     /\ succBuys["p1"] + succBuys["p2"] = 1)
        => stats.totalTradesExecuted = 2

\* C17: for a stored and a fetched snapshot with unique ids, detectChanges
\* reports a change whenever the position counts differ or a fetched id is
\* absent from the stored snapshot, whatever the quantities and total values;
\* so every change of the set of ids since the last accepted snapshot is
\* stored and reaches the update callback.
C17_IdSetChangeIsReported ==
    [][event'.op = "fetchDone" /\ lastStatus # <<>> =>
          LET cur == event'.input[1].openPositions
              prev == lastStatus[1].openPositions
          IN  (\/ Len(cur) # Len(prev)
               \/ \E i \in 1..Len(cur) : cur[i].id \notin IdsOf(prev)
               \/ IdsOf(cur) # IdsOf(prev))
                  => /\ detectChanges(event'.input[1], lastStatus)
                     /\ event'.onUpdate = 1
                     /\ lastStatus' = <<event'.input[1]>>]_vars

\* one position was replaced by another with the same quantity and total
\* value, and the snapshot was reported
C17_Witness ==
    /\ event.op = "fetchDone"
    /\ event.input = <<Status(<<Pos("p2", 1000)>>, 500), Status(<<Pos("p1", 1000)>>, 500)>>
    /\ event.onUpdate = 1

\* The quantity delta against the threshold max(1, 1% of the stored quantity),
\* as decimal numbers (in hundredths): -1 below, 0 equal, 1 above.
DeltaVsThreshold(currQty, prevQty) ==
    LET delta == IF currQty > prevQty THEN currQty - prevQty ELSE prevQty - currQty
        limit == IF prevQty > 10000 THEN prevQty ELSE 10000
    IN  IF 100 * delta > limit THEN 1 ELSE IF 100 * delta = limit THEN 0 ELSE -1

\* a fetch compared with a stored snapshot of the same ids and total value:
\* only the quantity rule can report a change
QuantityRuleDecides(e) ==
    /\ e.op = "fetchDone"
    /\ Len(e.input) = 2
    /\ Len(e.input[1].openPositions) = Len(e.input[2].openPositions)
    /\ IdsOf(e.input[1].openPositions) = IdsOf(e.input[2].openPositions)
    /\ e.input[1].totalValue = e.input[2].totalValue

\* the matched positions of such a fetch, each against its threshold
Deltas(e) ==
    {DeltaVsThreshold(e.input[1].openPositions[i].quantity,
                      PrevOf(e.input[2].openPositions,
                             e.input[1].openPositions[i].id).quantity) :
        i \in 1..Len(e.input[1].openPositions)}

Whole(q) == q % 100 = 0

\* the positions of a fetch whose delta equals the threshold, all in whole shares
EqualInWholeShares(e) ==
    \A i \in 1..Len(e.input[1].openPositions) :
        LET current == e.input[1].openPositions[i]
            previous == PrevOf(e.input[2].openPositions, current.id)
        IN  DeltaVsThreshold(current.quantity, previous.quantity) = 0
                => Whole(current.quantity) /\ Whole(previous.quantity)

C19_FailureOnlyCounts ==
    [][OrderFailed(event') =>
          /\ stats'.totalTradesFailed = stats.totalTradesFailed + 1
          /\ stats'.totalTradesExecuted = stats.totalTradesExecuted
          /\ stats'.totalVolume = stats.totalVolume
          /\ stats'.lastTradeTime = stats.lastTradeTime
          /\ executedPositions' = executedPositions]_vars

\* a sell failed after an earlier trade: the position is still in the ledger
C19_Witness ==
    /\ event.op = "sellDone"
    /\ OrderFailed(event)
    /\ executedPositions # {}
    /\ stats.lastTradeTime # <<>>
    /\ stats.totalTradesFailed = 1

\* C20: targetPositions is written only by the last line of a cycle, which
\* replaces it by the positions of that cycle's snapshot whatever the order
\* calls of the cycle returned; no other step of a cycle modifies it.
C20_TargetReplacedAtCycleEnd ==
    [][/\ event'.done = <<>> => targetPositions' = targetPositions
       /\ event'.done # <<>> =>
             /\ targetPositions' = event'.done[1]
             /\ IF event'.op = "fetchDone"
                THEN event'.done[1] = event'.input[1].openPositions
                ELSE \E i \in 1..Len(cycles) :
                        /\ cycles[i].cur = event'.done[1]
                        /\ cycles' = RemoveAt(cycles, i)]_vars

\* a cycle whose last order call failed has ended and replaced targetPositions
C20_Witness ==
    /\ OrderFailed(event)
    /\ event.done # <<>>
    /\ targetPositions = event.done[1]
    /\ targetPositions # <<>>

\* C21: after a buy for an id failed, and as long as every snapshot accepted
\* since contains the id, no further executeBuy is attempted for it and it
\* stays out of the ledger.
C21_FailedBuyIsNotRetried ==
    [][\A id \in buyFailed :
          /\ event'.call # OrderCall("buy", id)
          /\ id \notin executedPositions']_vars

\* C22: start() on a tracker that is not running issues exactly one fetch and
\* creates no timer yet; when that fetch settles the update callback (success,
\* no snapshot stored) or the error callback (failure) has run and only then
\* the timer is created; no tick starts a fetch while the initial fetch of a
\* start() is still in flight.
C22_InitialFetchBeforeTimer ==
    [][/\ event'.op = "start" /\ ~isMonitoring =>
             /\ StartFetches' = StartFetches + 1
             /\ Len(fetches') = Len(fetches) + 1
             /\ timers' = timers
       /\ StartFetches' < StartFetches =>
             /\ event'.op = "fetchDone" /\ lastStatus = <<>> => event'.onUpdate = 1
             /\ event'.op = "fetchFailed" => event'.onError >= 1
             /\ Cardinality(timers') = Cardinality(timers) + 1
       /\ event'.op = "tick" /\ event'.input = <<TRUE>> => StartFetches = 0]_vars

\* C23: a failed fetch inside an updateStatus execution invokes the error
\* callback exactly once.
C23_OneErrorReportPerFailure ==
    [][event'.op = "fetchFailed" => event'.onError = 1]_vars

\* C24: in every reachable state at most one interval timer is live, and a
\* live timer is the one whose id pollIntervalId holds, so stop() can cancel it.
C24_OnlyTheStoredTimerIsLive ==
    /\ Cardinality(timers) <= 1
    /\ \A t \in timers : t = pollIntervalId

\* C25: with copy trading enabled, whenever no diff-and-execute cycle is in
\* flight the keys of targetPositions are the ids of the open positions of
\* lastStatus.
C25_TargetMirrorsLastStatus ==
    (enabled /\ cycles = <<>> /\ lastStatus # <<>>) =>
        IdsOf(targetPositions) = IdsOf(lastStatus[1].openPositions)

\* C26: after a sell for an id failed, and as long as every snapshot accepted
\* since lacks the id, the id stays in executedPositions and no executeSell is
\* attempted for it; a buy is never attempted for an id that is in the ledger
\* (so a failed sell's id that reappears is skipped), and a sell is attempted
\* only by the cycle of a snapshot that lacks the id.
C26_FailedSellIsNotRetried ==
    [][/\ \A id \in sellFailed :
             /\ id \in executedPositions'
             /\ event'.call # OrderCall("sell", id)
       /\ \A id \in Ids :
             /\ event'.call = OrderCall("buy", id) => id \notin executedPositions'
             /\ event'.call = OrderCall("sell", id) =>
                    \E i \in 1..Len(cycles') :
                        /\ cycles'[i].pc = "sell"
                        /\ Head(cycles'[i].closedQ).id = id
                        /\ id \notin IdsOf(cycles'[i].cur)]_vars

====
